---- MODULE Spec2Model ----
(***************************************************************************)
(* Model of src/src/components/AudioChatbot.tsx: the useAudioRecorder hook *)
(* (microphone capture into a blob) and the AudioChatbot component (upload *)
(* of the blob, display of the response).  One action per UI event or      *)
(* asynchronous callback of the browser's event loop.  React state is read *)
(* by a handler as of the latest render; a render follows every update     *)
(* before the next event is dispatched.                                    *)
(***************************************************************************)
EXTENDS Integers, Sequences, FiniteSets, TLC

\* Bounds of the exploration (not program constants).
MaxRecordings == 2   \* getUserMedia calls issued in one run
MaxSubmits == 2      \* upload requests issued in one run

VARIABLES
  isRecording,     \* useState(false), line 21
  audioBlob,       \* useState<Blob | null>(null), line 22
  mediaRecorder,   \* mediaRecorder.current, line 23: 0 is null, else a recorder id
  chunks,          \* chunks.current, line 24: sequence of recorded parts
  response,        \* useState<ApiResponse | null>(null), line 86
  isProcessing,    \* useState(false), line 87
  error,           \* useState<string | null>(null), line 88
  pendingGUM,      \* getUserMedia promises not yet settled (ids)
  liveStreams,     \* MediaStreams whose tracks have not been stopped (ids)
  recorderState,   \* MediaRecorder.state of every recorder created, by id
  requests,        \* axios.post promises not yet settled
  nextId,          \* id of the next getUserMedia call / stream / recorder
  submitted,       \* number of upload requests issued so far
  lastResult,      \* how the most recently settled upload request ended
  spoken,          \* texts handed to window.speechSynthesis.speak, in order
  speechOK,        \* whether SpeechSynthesisUtterance / speak work in this browser
  mounted,         \* whether the component is mounted
  idleStop         \* how the last stopRecording call made while not recording ended

vars == <<isRecording, audioBlob, mediaRecorder, chunks, response, isProcessing,
          error, pendingGUM, liveStreams, recorderState, requests, nextId,
          submitted, lastResult, spoken, speechOK, mounted, idleStop>>

\* What no handler or callback of the component writes once it is set.
envVars == <<speechOK, mounted, idleStop>>

recorderVars == <<isRecording, audioBlob, mediaRecorder, chunks, pendingGUM,
                  liveStreams, recorderState, nextId>>
chatVars == <<response, isProcessing, error, requests, submitted, lastResult, spoken>>

----------------------------------------------------------------------------
\* Values

RecorderIds == 1..MaxRecordings

\* A Blob is the sequence of parts it was built from; null is a separate value.
NullBlob == [isNull |-> TRUE, parts |-> <<>>]
Blob(parts) == [isNull |-> FALSE, parts |-> parts]

\* The error state: null or a message.
NoError == "null"
GenericError == "Failed to process audio. Please try again."

\* What axios hands back as result.data.  kind "json": the body parsed to an
\* object; kind "text": the body was not JSON and is handed back as the raw
\* string; kind "null": the body parsed to null.
NullData == [kind |-> "null", text_response |-> "", math_operation |-> "null"]
RawData == [kind |-> "text", text_response |-> "", math_operation |-> "null"]
JsonData(t, m) == [kind |-> "json", text_response |-> t, math_operation |-> m]
ApiBodies == {JsonData(t, m) : t \in {"", "4"}, m \in {"null", "2+2=4"}}
Bodies == ApiBodies \cup {RawData, NullData}

\* How an upload request settles: rejected (network error, or a status
\* outside 2xx, which axios' default validateStatus turns into a rejection),
\* or resolved with the data of the body.
Rejected(why) == [rejected |-> TRUE, why |-> why, data |-> NullData]
Resolved(d) == [rejected |-> FALSE, why |-> "2xx", data |-> d]
Outcomes == {Rejected("network"), Rejected("status")} \cup {Resolved(d) : d \in Bodies}
NoResult == [rejected |-> FALSE, why |-> "none", data |-> NullData]

\* JavaScript truthiness of result.data / response.
Truthy(d) == d.kind # "null"
\* Reading d.text_response throws a TypeError when d is null.
ReadThrows(d) == d.kind = "null"
\* d.text_response: undefined (falsy) on a string, the field on an object.
TextOf(d) == IF d.kind = "json" THEN d.text_response ELSE ""

----------------------------------------------------------------------------
Init ==
  /\ isRecording = FALSE
  /\ audioBlob = NullBlob
  /\ mediaRecorder = 0
  /\ chunks = <<>>
  /\ response = NullData
  /\ isProcessing = FALSE
  /\ error = NoError
  /\ pendingGUM = {}
  /\ liveStreams = {}
  /\ recorderState = [r \in RecorderIds |-> "none"]
  /\ requests = {}
  /\ nextId = 1
  /\ submitted = 0
  /\ lastResult = NoResult
  /\ spoken = <<>>
  /\ speechOK \in BOOLEAN
  /\ mounted = TRUE
  /\ idleStop = "none"

----------------------------------------------------------------------------
\* useAudioRecorder

\* startRecording up to its await: the getUserMedia call is issued.
startRecording ==
  /\ nextId <= MaxRecordings
  /\ pendingGUM' = pendingGUM \cup {nextId}
  /\ nextId' = nextId + 1
  /\ UNCHANGED <<isRecording, audioBlob, mediaRecorder, chunks, liveStreams, recorderState>>

\* startRecording after its await, permission granted: lines 29-45.
getUserMediaResolved(s) ==
  /\ s \in pendingGUM
  /\ pendingGUM' = pendingGUM \ {s}
  /\ liveStreams' = liveStreams \cup {s}
  /\ mediaRecorder' = s
  /\ chunks' = <<>>
  /\ recorderState' = [recorderState EXCEPT ![s] = "recording"]
  /\ isRecording' = TRUE
  /\ UNCHANGED <<audioBlob, nextId>>
  /\ UNCHANGED chatVars
  /\ UNCHANGED envVars

\* Variant: a catch block in startRecording that shows the failure to the user.
StartCatchErrorShown(e) == GenericError

\* The catch block of startRecording (lines 46-48) logs and sets no state:
\* the error state it leaves.
StartCatchError(e) == e

\* startRecording after its await, permission denied or no device: lines 46-48.
getUserMediaRejected(s) ==
  /\ s \in pendingGUM
  /\ pendingGUM' = pendingGUM \ {s}
  /\ error' = StartCatchError(error)
  /\ UNCHANGED <<isRecording, audioBlob, mediaRecorder, chunks, liveStreams,
                 recorderState, nextId>>
  /\ UNCHANGED <<response, isProcessing, requests, submitted, lastResult, spoken>>
  /\ UNCHANGED envVars

\* MediaRecorder.stop(): a recording recorder stops gathering and queues the
\* task that fires dataavailable and stop; an inactive one is left alone.
RecorderStop(st) == IF st = "recording" THEN "stopping" ELSE st

\* Variant: stopRecording without its guard.
StopGuardMissing == TRUE

\* The guard of stopRecording (line 52).
StopGuard == mediaRecorder # 0 /\ isRecording

\* Past the guard, line 53 calls stop() on mediaRecorder.current: a TypeError
\* when that is null, and line 54 is not reached.
StopThrows == StopGuard /\ mediaRecorder = 0

stopRecording ==
  /\ IF StopGuard /\ ~StopThrows
       THEN /\ recorderState' = [recorderState EXCEPT ![mediaRecorder] = RecorderStop(@)]
            /\ isRecording' = FALSE
       ELSE UNCHANGED <<recorderState, isRecording>>
  /\ UNCHANGED <<audioBlob, mediaRecorder, chunks, pendingGUM, liveStreams, nextId>>

\* The task queued by stop() on recorder r: ondataavailable (line 33) pushes
\* r's data, then onstop (lines 37-41) builds the blob and stops the tracks
\* of the stream r was created on.
recorderStopTask(r) ==
  /\ recorderState[r] = "stopping"
  /\ recorderState' = [recorderState EXCEPT ![r] = "inactive"]
  /\ chunks' = Append(chunks, r)
  /\ audioBlob' = Blob(chunks')
  /\ liveStreams' = liveStreams \ {r}
  /\ UNCHANGED <<isRecording, mediaRecorder, pendingGUM, nextId>>
  /\ UNCHANGED chatVars
  /\ UNCHANGED envVars

----------------------------------------------------------------------------
\* AudioChatbot: rendering of the two controls

\* The record toggle is disabled while processing (line 151).
RecordDisabled == isProcessing

\* Variant: the send control rendered whenever a blob exists.
SendVisibleWhileRecording == ~audioBlob.isNull

\* The send control is rendered when a blob exists and not recording (line 156).
SendVisible == ~audioBlob.isNull /\ ~isRecording

\* Variant: the send control never disabled.
SendNeverDisabled == FALSE

\* The send control is disabled while processing (line 161).
SendDisabled == isProcessing

\* The result panel is rendered when a response is stored (line 190).
ResultPanelVisible == Truthy(response)

\* Variant: the math panel rendered with every response.
MathPanelWithEveryResponse == Truthy(response)

\* VisualMathOperation is rendered inside the result panel when the
\* response's math_operation is truthy (lines 190, 200).
MathPanelVisible == Truthy(response) /\ response.math_operation # "null"

\* Click on the record toggle: onClick={isRecording ? stopRecording : startRecording}.
ClickStart ==
  /\ mounted
  /\ ~RecordDisabled
  /\ ~isRecording
  /\ startRecording
  /\ UNCHANGED chatVars
  /\ UNCHANGED envVars

ClickStop ==
  /\ mounted
  /\ ~RecordDisabled
  /\ isRecording
  /\ stopRecording
  /\ UNCHANGED chatVars
  /\ UNCHANGED envVars

\* stopRecording called while no recording is active.  The record toggle
\* never does this (it calls startRecording then); it is a call of the
\* function the hook returns.
stopRecordingIdle ==
  /\ mounted
  /\ ~isRecording
  /\ stopRecording
  /\ idleStop' = IF StopThrows THEN "threw" ELSE "noop"
  /\ UNCHANGED chatVars
  /\ UNCHANGED <<speechOK, mounted>>

\* The component unmounts: the effect cleanup (lines 94-99) pauses the audio
\* player and clears its src; the recorder hook registers no cleanup.  The
\* state variables keep the last value set; nothing renders them any more,
\* and callbacks already scheduled still run.
Unmount ==
  /\ mounted
  /\ mounted' = FALSE
  /\ UNCHANGED recorderVars
  /\ UNCHANGED chatVars
  /\ UNCHANGED <<speechOK, idleStop>>

----------------------------------------------------------------------------
\* AudioChatbot: handleSubmit

\* audioPlayer.current is set on mount (line 92) and never reset to null.
audioPlayerCurrent == TRUE

\* handleSubmit up to its await: lines 103-120.
handleSubmit ==
  /\ ~audioBlob.isNull
  /\ submitted < MaxSubmits
  /\ isProcessing' = TRUE
  /\ error' = NoError
  /\ requests' = requests \cup {[id |-> submitted + 1, audio |-> audioBlob]}
  /\ submitted' = submitted + 1
  /\ UNCHANGED <<response, lastResult, spoken>>

ClickSend ==
  /\ mounted
  /\ SendVisible
  /\ ~SendDisabled
  /\ handleSubmit
  /\ UNCHANGED recorderVars
  /\ UNCHANGED envVars

\* The try block after the await resolved (lines 122-128): whether it throws.
\* Reading text_response of null throws; so does speaking where the speech
\* API is missing.
\* Variant: speaking whatever text_response holds, the empty string included.
SpeaksAnyText(d) == audioPlayerCurrent /\ ~ReadThrows(d)

Speaks(d) == audioPlayerCurrent /\ ~ReadThrows(d) /\ TextOf(d) # ""
TryThrows(d) == ReadThrows(d) \/ (Speaks(d) /\ ~speechOK)

\* The catch block (lines 129-131): the error it stores and the response it leaves.
CatchError(e) == GenericError

\* Variant: a catch block that also clears the response.
CatchResponseCleared(r) == NullData

CatchResponse(r) == r

\* Variant: isProcessing reset in the catch block only.
FinallyOnlyOnThrow(threw) == ~threw

\* Variant: isProcessing reset at the end of the try block instead of in finally.
FinallySkippedOnThrow(threw) == threw

\* The finally block (line 133): the value isProcessing gets, whether or not
\* the try block threw.
FinallyProcessing(threw) == FALSE

\* handleSubmit after its await: lines 122-134.
handleSubmitSettled(req, out) ==
  /\ req \in requests
  /\ requests' = requests \ {req}
  /\ lastResult' = out
  /\ IF out.rejected
       THEN /\ response' = CatchResponse(response)
            /\ error' = CatchError(error)
            /\ spoken' = spoken
            /\ isProcessing' = FinallyProcessing(TRUE)
       ELSE /\ response' = IF TryThrows(out.data) THEN CatchResponse(out.data) ELSE out.data
            /\ error' = IF TryThrows(out.data) THEN CatchError(error) ELSE error
            /\ spoken' = IF Speaks(out.data) /\ speechOK
                           THEN Append(spoken, TextOf(out.data)) ELSE spoken
            /\ isProcessing' = FinallyProcessing(TryThrows(out.data))
  /\ UNCHANGED submitted
  /\ UNCHANGED recorderVars
  /\ UNCHANGED envVars

----------------------------------------------------------------------------
Next ==
  \/ ClickStart
  \/ ClickStop
  \/ \E s \in RecorderIds : getUserMediaResolved(s)
  \/ \E s \in RecorderIds : getUserMediaRejected(s)
  \/ \E r \in RecorderIds : recorderStopTask(r)
  \/ ClickSend
  \/ stopRecordingIdle
  \/ Unmount
  \/ \E req \in requests, out \in Outcomes : handleSubmitSettled(req, out)

Spec == Init /\ [][Next]_vars

----------------------------------------------------------------------------
\* Steps and states the properties speak about

\* A step in which handleSubmit issues an upload request.
IssuesRequest == submitted' = submitted + 1

\* A step in which an upload request settles and handleSubmit resumes.
SettlesRequest == Cardinality(requests') < Cardinality(requests)

\* A step in which a new recording begins (startRecording lines 29-45 ran).
BeginsRecording == mediaRecorder' # mediaRecorder

\* Recorders that are gathering audio.
Running == {r \in RecorderIds : recorderState[r] = "recording"}

\* No permission request pending, nothing recording from the UI's point of
\* view, no stop task queued.
Quiescent ==
  /\ pendingGUM = {}
  /\ ~isRecording
  /\ \A r \in RecorderIds : recorderState[r] # "stopping"

\* A step in which a getUserMedia promise settles without a stream: the
\* start failed (permission denied or no device).
FailsStart ==
  /\ pendingGUM' # pendingGUM
  /\ pendingGUM' \subseteq pendingGUM
  /\ (pendingGUM \ pendingGUM') \cap liveStreams' = {}

\* The recorder stopRecording was last called on.  With isRecording false and
\* a recorder created, that is mediaRecorder.current: the ref changes only
\* when a new recording begins, which sets isRecording.
LastStopped == mediaRecorder

\* The recording whose onstop built blob b: its data is the last part pushed.
RecordingOf(b) == IF b.isNull \/ Len(b.parts) = 0 THEN 0 ELSE b.parts[Len(b.parts)]

\* Whether the last settled request ended with a body that is not an ApiResponse.
Malformed(res) == ~res.rejected /\ res.why = "2xx" /\ res.data.kind # "json"

----------------------------------------------------------------------------
\* C1: isRecording and isProcessing are never both true, whatever the
\* interleaving of clicks with the settling of getUserMedia and of the upload.
C1_RecordingExcludesProcessing == ~(isRecording /\ isProcessing)

\* C2: an upload request is issued only from a state in which a captured
\* blob exists, isRecording is false and isProcessing is false.
C2_SubmitOnlyWhenAllowed ==
  [][IssuesRequest => (~audioBlob.isNull /\ ~isRecording /\ ~isProcessing)]_vars

\* A request has been issued for a captured blob.
C2_Witness == requests # {} /\ isProcessing /\ submitted >= 1

\* C3: at most one upload request is in flight at any time.
C3_OneRequestInFlight == Cardinality(requests) <= 1

\* A request is pending while the send control is on screen, disabled.
C3_Witness == Cardinality(requests) = 1 /\ SendVisible /\ SendDisabled

\* C4: once a started recording has been stopped and its stop task has run,
\* a blob is stored and, with nothing else pending, no microphone stream
\* acquired by the recorder hook is still live.
C4_StopStoresBlobAndReleasesMic ==
  \A r \in RecorderIds :
    (recorderState[r] = "inactive" /\ Quiescent) =>
      (~audioBlob.isNull /\ liveStreams = {})

\* C5: at most one live microphone stream and at most one running
\* MediaRecorder exist in any state.
C5_OneCaptureSession == Cardinality(liveStreams) <= 1 /\ Cardinality(Running) <= 1

\* C6: when a new recording begins while an earlier blob is stored, the
\* captured-audio state no longer holds that blob.
C6_StartDiscardsBlob ==
  [][(BeginsRecording /\ ~audioBlob.isNull) => audioBlob' # audioBlob]_vars

\* C7: a submission clears response and error before its request is issued,
\* and once a submission has completed exactly one of the two is present.
C7_ResponseXorError ==
  /\ requests # {} => (~Truthy(response) /\ error = NoError)
  /\ (lastResult.why # "none" /\ requests = {}) =>
       (Truthy(response) # (error # NoError))

\* C8: the step in which a request settles leaves isProcessing false, for
\* every outcome, and isProcessing is true only while a request is pending.
C8_SettledClearsProcessing ==
  [][(SettlesRequest => ~isProcessing') /\ (isProcessing' => requests' # {})]_vars

\* A request resolved, handling its body threw, and processing has ended.
C8_Witness ==
  /\ lastResult.why = "2xx"
  /\ TryThrows(lastResult.data)
  /\ error = GenericError
  /\ ~isProcessing

C10_MalformedIsFailure ==
  [][(SettlesRequest /\ (lastResult'.why = "status" \/ Malformed(lastResult'))) =>
       (error' = GenericError /\ response' = response)]_vars


\* C11: a failed start leaves isRecording, the blob, response, error and
\* isProcessing as they were, acquires no microphone stream and creates no
\* recorder.
C11_FailedStartChangesNothing ==
  [][FailsStart =>
       /\ isRecording' = isRecording
       /\ audioBlob' = audioBlob
       /\ response' = response
       /\ error' = error
       /\ isProcessing' = isProcessing
       /\ liveStreams' = liveStreams
       /\ mediaRecorder' = mediaRecorder
       /\ recorderState' = recorderState]_vars

\* The only start so far has failed: nothing records, nothing is held, no
\* error is shown.
C11_Witness ==
  /\ nextId = 2
  /\ pendingGUM = {}
  /\ mediaRecorder = 0
  /\ ~isRecording
  /\ liveStreams = {}
  /\ error = NoError

\* C12: a stopRecording call made while no recording is active raises no
\* error, stops no recorder and changes no state variable.
C12_IdleStopIsNoOp ==
  [][idleStop' # idleStop =>
       /\ idleStop' = "noop"
       /\ UNCHANGED recorderVars
       /\ UNCHANGED chatVars]_vars

\* stopRecording has been called before any start.
C12_Witness == idleStop = "noop" /\ nextId = 1 /\ mediaRecorder = 0

\* C13: once the component has unmounted and the callbacks still scheduled
\* have run, no microphone stream is live.
C13_UnmountReleasesMic ==
  (~mounted /\ pendingGUM = {} /\ \A r \in RecorderIds : recorderState[r] # "stopping")
    => liveStreams = {}

\* C14: after a failed submission isProcessing is false, the blob is kept and
\* the send control is on screen and enabled; after a failed start with no
\* submission processing the record control is enabled.
C14_FailuresReattemptable ==
  [][/\ (SettlesRequest /\ lastResult'.rejected /\ mounted) =>
          /\ ~isProcessing'
          /\ audioBlob' = audioBlob
          /\ SendVisible'
          /\ ~SendDisabled'
     /\ (FailsStart /\ mounted /\ ~isProcessing) => ~RecordDisabled']_vars

\* C15: the math panel is on screen exactly when a response is stored and
\* its math_operation is not null; a request answered with an ApiResponse
\* shows the result panel, with the math panel exactly when the answer
\* carries a math_operation.
C15_MathPanelIffOperation ==
  [][/\ MathPanelVisible' <=> (Truthy(response') /\ response'.math_operation # "null")
     /\ (SettlesRequest /\ ~lastResult'.rejected /\ lastResult'.data.kind = "json") =>
          /\ ResultPanelVisible'
          /\ MathPanelVisible' <=> (lastResult'.data.math_operation # "null")]_vars

\* A response without math_operation is on display: text only.
C15_Witness ==
  /\ lastResult.why = "2xx"
  /\ lastResult.data = JsonData("4", "null")
  /\ response = lastResult.data
  /\ ResultPanelVisible
  /\ ~MathPanelVisible

\* C16: the step in which a request settles speaks at most one text; it
\* speaks only when the request resolved with a non-empty text_response, and
\* then the response is stored; where the browser provides speech synthesis
\* it does speak in that case; and isProcessing is false afterwards.
C16_SpeaksOncePerAnswer ==
  [][SettlesRequest =>
       /\ spoken' = spoken \/ spoken' = Append(spoken, lastResult'.data.text_response)
       /\ spoken' # spoken =>
            /\ ~lastResult'.rejected
            /\ lastResult'.data.kind = "json"
            /\ lastResult'.data.text_response # ""
            /\ response' = lastResult'.data
       /\ (/\ ~lastResult'.rejected
           /\ lastResult'.data.kind = "json"
           /\ lastResult'.data.text_response # ""
           /\ speechOK) => spoken' = Append(spoken, lastResult'.data.text_response)
       /\ ~isProcessing']_vars

\* Two answers with text have been spoken, one utterance each.
C16_Witness == Len(spoken) = 2 /\ submitted = 2 /\ requests = {} /\ ~isProcessing

\* C17: the blob an upload request carries is the blob of the recording
\* stopRecording was last called on.
C17_UploadsLatestRecording ==
  [][IssuesRequest =>
       \A req \in requests' \ requests : RecordingOf(req.audio) = LastStopped]_vars

\* C18: isProcessing is true exactly when an upload request is pending.
C18_ProcessingIffPending == isProcessing <=> (requests # {})

\* The second submission is pending.
C18_Witness == isProcessing /\ Cardinality(requests) = 1 /\ submitted = 2

\* C19: a submission whose request succeeded with an ApiResponse, which is
\* then stored, leaves error cleared.
C19_ErrorOnlyOnRequestFailure ==
  [][(/\ SettlesRequest
      /\ ~lastResult'.rejected
      /\ lastResult'.data.kind = "json"
      /\ response' = lastResult'.data) => error' = NoError]_vars

====
